---- MODULE Spec2Model ----
\* CSV-to-record reconciliation pipeline of surgery-cost (src/backend/app.py):
\* the import handler import_csv, the manual usage replacement
\* api_case_usage_replace, and the pure helpers they are built from.
\*
\* Text is a sequence of one-character symbols.  ASCII characters stand for
\* themselves; the non-ASCII glyphs of the source are named:
\*   STAR   = U+2605 (the usage marker)      IDSP   = U+3000 (full-width space)
\*   ICOMMA = U+3001 (ideographic comma)     FCOMMA = U+FF0C (full-width comma)
\* A symbol may also stand for a run of characters that the code never looks
\* into (a header word, a date as written, LONGRUN = a run of 4301 digits).
\* Python's None and pandas' NaN are the one-symbol sequences None and NaN,
\* which no text of the model can equal.
EXTENDS Integers, Sequences, FiniteSets, TLC

VARIABLES
    store,      \* the committed contents of surgDB.db
    req,        \* the HTTP request being served (NoReq when idle)
    resp,       \* the response to req (NoResp until the handler has run)
    nOps,       \* number of handler executions so far
    hist,       \* history: what the last handler execution did
    remarks,    \* harness of the pure functions: the argument
    tokOut,     \* harness of the pure functions: the result
    conn,       \* two simultaneous imports: the connection of each handler
    dbfile      \* two simultaneous imports: journal mode and commit count of surgDB.db

vars == <<store, req, resp, nOps, hist, remarks, tokOut, conn, dbfile>>

\* ---------------------------------------------------------------- bounds

\* longest remarks text enumerated character by character
MaxLen == 4

\* most data rows in one uploaded file
MaxRows == 2

\* most handler executions in one behaviour
MaxOps == 2

\* most delimited segments in one enumerated remarks text
MaxTokens == 3

\* ---------------------------------------------------------------- text

STAR == "STAR"
IDSP == "IDSP"
ICOMMA == "ICOMMA"
FCOMMA == "FCOMMA"

None == <<"<None>">>
NaN == <<"<NaN>">>

\* str.isspace / the regex class \s
IsSpace(c) == c \in {" ", "\n", "\t", IDSP}

DigitVal == [c \in {"0", "1", "2", "3", "4", "5", "6", "7", "8", "9"} |->
               CASE c = "0" -> 0 [] c = "1" -> 1 [] c = "2" -> 2 [] c = "3" -> 3
                 [] c = "4" -> 4 [] c = "5" -> 5 [] c = "6" -> 6 [] c = "7" -> 7
                 [] c = "8" -> 8 [] c = "9" -> 9]

\* a run of 4301 decimal digits "1"
LONGRUN == "1x4301"

\* the regex class \d (LONGRUN is a run of characters of the class)
IsDigit(c) == c \in DOMAIN DigitVal \/ c = LONGRUN

SetMin(S) == CHOOSE x \in S : \A y \in S : x <= y
SetMax(S) == CHOOSE x \in S : \A y \in S : x >= y

\* str.strip()
Strip(s) ==
    LET keep == {i \in 1..Len(s) : ~IsSpace(s[i])}
    IN  IF keep = {} THEN <<>> ELSE SubSeq(s, SetMin(keep), SetMax(keep))

\* what a greedy leading \s* leaves of s
LStrip(s) ==
    LET keep == {i \in 1..Len(s) : ~IsSpace(s[i])}
    IN  IF keep = {} THEN <<>> ELSE SubSeq(s, SetMin(keep), Len(s))

Contains(s, c) == \E i \in 1..Len(s) : s[i] = c

\* re.split(r"[,、，]", text): the pieces between the delimiters
RECURSIVE ReSplit(_, _)
ReSplit(s, seps) ==
    LET at == {i \in 1..Len(s) : s[i] \in seps}
    IN  IF at = {} THEN <<s>>
        ELSE <<SubSeq(s, 1, SetMin(at) - 1)>>
             \o ReSplit(SubSeq(s, SetMin(at) + 1, Len(s)), seps)

\* s.split("[")[0]
BeforeFirst(s, c) ==
    LET at == {i \in 1..Len(s) : s[i] = c}
    IN  IF at = {} THEN s ELSE SubSeq(s, 1, SetMin(at) - 1)

\* ---------------------------------------------------------------- numbers

AllDigits(s) == Len(s) >= 1 /\ \A i \in 1..Len(s) : IsDigit(s[i])

RECURSIVE DigitsValue(_)
DigitsValue(s) ==
    IF s = <<>> THEN 0
    ELSE 10 * DigitsValue(SubSeq(s, 1, Len(s) - 1)) + DigitVal[s[Len(s)]]

DigitOf(n) == CHOOSE c \in DOMAIN DigitVal : DigitVal[c] = n

RECURSIVE NatDigits(_)
NatDigits(n) ==
    IF n < 10 THEN <<DigitOf(n)>> ELSE NatDigits(n \div 10) \o <<DigitOf(n % 10)>>

RECURSIVE DropTrailingZeros(_)
DropTrailingZeros(s) ==
    IF s # <<>> /\ s[Len(s)] = "0" THEN DropTrailingZeros(SubSeq(s, 1, Len(s) - 1))
    ELSE s

\* a raised exception, as the value of the call that raised it
Raised(exc) == <<[exc |-> exc]>>

\* the number of digit characters a text of digits holds
RECURSIVE DigitCount(_)
DigitCount(s) ==
    IF s = <<>> THEN 0
    ELSE DigitCount(SubSeq(s, 1, Len(s) - 1)) + (IF s[Len(s)] = LONGRUN THEN 4301 ELSE 1)

\* int(s) for a text s: CPython refuses to convert more than 4300 digits
\* (sys.int_info.default_max_str_digits) with a ValueError
PyInt(s) ==
    IF AllDigits(s) /\ DigitCount(s) <= 4300 THEN [kind |-> "int", n |-> DigitsValue(s)]
    ELSE [kind |-> "raise", exc |-> "ValueError"]

\* float(s) for a text s: the whole part and the fraction digits that count
\* (exact for the short literals of the model); a whole part too long for a
\* double is inf
PyFloat(s) ==
    LET dots == {i \in 1..Len(s) : s[i] = "."}
        whole == IF dots = {} THEN s ELSE SubSeq(s, 1, SetMin(dots) - 1)
        frac == IF dots = {} THEN <<>> ELSE SubSeq(s, SetMin(dots) + 1, Len(s))
    IN  IF ~(Cardinality(dots) <= 1 /\ AllDigits(whole) /\ (dots = {} \/ AllDigits(frac)))
        THEN [kind |-> "raise", exc |-> "ValueError"]
        ELSE IF Contains(whole, LONGRUN) THEN [kind |-> "inf"]
        ELSE [kind |-> "float", whole |-> DigitsValue(whole),
              frac |-> DropTrailingZeros(frac)]

\* str(q) for a number q
PyStr(q) ==
    IF q.kind = "int" THEN NatDigits(q.n)
    ELSE IF q.kind = "inf" THEN <<"i", "n", "f">>
    ELSE NatDigits(q.whole) \o <<".">> \o (IF q.frac = <<>> THEN <<"0">> ELSE q.frac)

\* ---------------------------------------------------------------- Remarks Tokenizer

\* the regex \d+(?:\.\d+)?
IsNumLit(s) ==
    \/ AllDigits(s)
    \/ \E d \in 1..Len(s) :
          /\ s[d] = "."
          /\ AllDigits(SubSeq(s, 1, d - 1))
          /\ AllDigits(SubSeq(s, d + 1, Len(s)))

\* re.match(r"^STAR\s*(.*?)(?:\[(\d+(?:\.\d+)?)\])\s*([^\]]*)\s*$", p):
\* a is where (.*?) starts, b the "[" and c the "]" of the numeric group.
StructuredSplits(p) ==
    LET A == {a \in 2..(Len(p) + 1) : \A i \in 2..(a - 1) : IsSpace(p[i])}   \* \s*
        B == {b \in 2..Len(p) : p[b] = "["}
        C == {c \in 2..Len(p) :
                p[c] = "]" /\ \A i \in (c + 1)..Len(p) : p[i] # "]"}       \* \s*([^\]]*)\s*$
    IN  IF ~(Len(p) >= 1 /\ p[1] = STAR) THEN {}
        ELSE {t \in A \X B \X C :
                /\ t[1] <= t[2] /\ t[2] < t[3]
                /\ \A i \in t[1]..(t[2] - 1) : p[i] # "\n"               \* (.*?)
                /\ IsNumLit(SubSeq(p, t[2] + 1, t[3] - 1))}               \* \d+(?:\.\d+)?

\* the split the backtracking matcher finds first: \s* greedy (the largest
\* first component), (.*?) lazy (then the smallest second component)
FirstSplit(S) ==
    CHOOSE t \in S : \A u \in S : t[1] > u[1] \/ (t[1] = u[1] /\ t[2] <= u[2])

\* m.group(1), m.group(2), m.group(3) of the match at split t
StructuredGroups(p, t) ==
    [matched |-> TRUE,
     g1 |-> SubSeq(p, t[1], t[2] - 1),
     g2 |-> SubSeq(p, t[2] + 1, t[3] - 1),
     g3 |-> LStrip(SubSeq(p, t[3] + 1, Len(p)))]

StructuredMatch(p) ==
    IF StructuredSplits(p) = {} THEN [matched |-> FALSE]
    ELSE StructuredGroups(p, FirstSplit(StructuredSplits(p)))

\* re.match(r"^STAR\s*(.*?)\s*$", p): (.*?) cannot cross a line break, the
\* \s* on either side can.  a is where (.*?) starts, e where it ends.
FallbackSplits(p) ==
    LET A == {a \in 2..(Len(p) + 1) : \A i \in 2..(a - 1) : IsSpace(p[i])}
        E == {e \in 1..Len(p) : \A i \in (e + 1)..Len(p) : IsSpace(p[i])}
    IN  IF ~(Len(p) >= 1 /\ p[1] = STAR) THEN {}
        ELSE {t \in A \X E :
                /\ t[1] <= t[2] + 1
                /\ \A i \in t[1]..t[2] : p[i] # "\n"}

\* m2.group(1) of the match at split t
FallbackGroups(p, t) == [matched |-> TRUE, g1 |-> SubSeq(p, t[1], t[2])]

FallbackMatch(p) ==
    IF FallbackSplits(p) = {} THEN [matched |-> FALSE]
    ELSE FallbackGroups(p, FirstSplit(FallbackSplits(p)))

\* float(qty_str) if "." in qty_str else int(qty_str)
ToQuantity(qty_str) ==
    IF Contains(qty_str, ".") THEN PyFloat(qty_str) ELSE PyInt(qty_str)

\* (x or "").strip() or None
StripOrNone(x) == IF Strip(x) = <<>> THEN None ELSE Strip(x)

\* the structured branch once item_name, quantity and unit are computed:
\* int() may have raised; an entry is appended if item_name is not empty
StructuredEntry(internal_case_id, memo, item_name, quantity, unit) ==
    IF quantity.kind = "raise" THEN Raised(quantity.exc)
    ELSE IF item_name # <<>>
    THEN <<[case_id |-> internal_case_id, free_item_name |-> item_name,
            quantity |-> quantity, unit |-> unit, memo |-> memo]>>
    ELSE <<>>

\* the fallback branch once item_name is computed
FallbackEntry(internal_case_id, memo, item_name) ==
    IF item_name # <<>>
    THEN <<[case_id |-> internal_case_id, free_item_name |-> item_name,
            quantity |-> [kind |-> "none"], unit |-> None, memo |-> memo]>>
    ELSE <<>>

\* "if m: ... continue" and "if m2: ..." for the matches m and m2 of p
MatchEntries(internal_case_id, p, m, m2) ==
    IF m.matched
    THEN StructuredEntry(internal_case_id, p, Strip(BeforeFirst(Strip(m.g1), "[")),
                         ToQuantity(m.g2), StripOrNone(m.g3))
    ELSE IF m2.matched THEN FallbackEntry(internal_case_id, p, Strip(m2.g1))
    ELSE <<>>

\* the loop body for the trimmed part p
TokenEntries(internal_case_id, p) ==
    IF ~(Len(p) >= 1 /\ p[1] = STAR) THEN <<>>
    ELSE MatchEntries(internal_case_id, p, StructuredMatch(p), FallbackMatch(p))

\* one turn of the loop over parts: the entries the part appends
PartEntries(internal_case_id, part) == TokenEntries(internal_case_id, Strip(part))

IsRaised(v) == Len(v) = 1 /\ "exc" \in DOMAIN v[1]

ThenEntries_Prepends(here, rest) ==
    IF IsRaised(here) THEN here
    ELSE IF IsRaised(rest) THEN rest
    ELSE rest \o here

\* results after a turn that gave `here`, followed by the turns that give
\* `rest`: an exception ends the loop
ThenEntries(here, rest) ==
    IF IsRaised(here) THEN here
    ELSE IF IsRaised(rest) THEN rest
    ELSE here \o rest

RECURSIVE CollectEntries(_, _, _)
CollectEntries(internal_case_id, parts, i) ==
    IF i > Len(parts) THEN <<>>
    ELSE ThenEntries(PartEntries(internal_case_id, parts[i]),
                     CollectEntries(internal_case_id, parts, i + 1))

\* str(remarks) of a value that is not a text already
PyStrOfNaN == <<"n", "a", "n">>

parse_usage_from_remarks(internal_case_id, rem) ==
    IF rem = None \/ rem = NaN THEN <<>>
    ELSE CollectEntries(internal_case_id, ReSplit(rem, {",", ICOMMA, FCOMMA}), 1)

\* ---------------------------------------------------------------- CSV columns

ColCaseId == <<"ShoureiID">>
ColPatientId == <<"KanjaBangou">>
ColPatientName == <<"KanjaShimei", "(", "Kanji", ")">>
ColAge == <<"Nenrei">>
ColSurgDate == <<"ShujutsuJisshibi">>
ColDept == <<"JisshiShinryouka">>
ColProcedure == <<"KakuteiJutsushikiFreeKensaku">>
ColDisease == <<"JutsugoByoumei">>
ColRemarks == <<"Remarks", "FLPAREN", "Kango", "FRPAREN">>

REQUIRED_COLUMNS ==
    <<ColCaseId, ColPatientId, ColPatientName, ColAge, ColSurgDate,
      ColDept, ColProcedure, ColDisease, ColRemarks>>

\* str(c).replace(IDSP, " ").strip() for one header cell
NormalizeHeader(c) == Strip([i \in 1..Len(c) |-> IF c[i] = IDSP THEN " " ELSE c[i]])

\* a DataFrame is [columns, rows]; a row is the sequence of its cells
normalize_headers(df) ==
    [df EXCEPT !.columns = [i \in 1..Len(df.columns) |-> NormalizeHeader(df.columns[i])]]

SeqRange(s) == {s[i] : i \in 1..Len(s)}

RECURSIVE SeqOfIndices(_)
SeqOfIndices(S) ==
    IF S = {} THEN <<>> ELSE <<SetMin(S)>> \o SeqOfIndices(S \ {SetMin(S)})

\* the required columns the frame lacks, in the order of REQUIRED_COLUMNS
MissingColumns(df) ==
    LET idx == {i \in 1..Len(REQUIRED_COLUMNS) : REQUIRED_COLUMNS[i] \notin SeqRange(df.columns)}
        order == SeqOfIndices(idx)
    IN  [k \in 1..Len(order) |-> REQUIRED_COLUMNS[order[k]]]

\* validate_headers raises ValueError naming the missing columns
validate_headers(df) ==
    IF MissingColumns(df) # <<>>
    THEN [raised |-> TRUE, exc |-> "ValueError",
          msg |-> <<[lit |-> "required columns missing"]>>
                  \o [k \in 1..Len(MissingColumns(df)) |-> [col |-> MissingColumns(df)[k]]]]
    ELSE [raised |-> FALSE]

\* df[name] at one row
Cell(df, row, name) == row[SetMin({i \in 1..Len(df.columns) : df.columns[i] = name})]

\* ---------------------------------------------------------------- Field Coercers

NoValue == [kind |-> "none"]

\* pd.to_datetime(s, errors="coerce").strftime("%Y-%m-%d"); NaT when s is no date
ToDatetime(s) ==
    IF s = <<"2024/1/5">> THEN <<"2024-01-05">>
    ELSE IF s = <<"2024-02-03">> THEN <<"2024-02-03">>
    ELSE <<"NaT">>

to_iso_date(val) ==
    IF val = NaN THEN [raised |-> FALSE, value |-> None]
    ELSE IF Strip(val) = <<>> THEN [raised |-> FALSE, value |-> None]
    ELSE IF ToDatetime(Strip(val)) = <<"NaT">>
    THEN [raised |-> TRUE, exc |-> "ValueError",
          msg |-> <<[lit |-> "surgery date format is invalid"], [val |-> Strip(val)]>>]
    ELSE [raised |-> FALSE, value |-> ToDatetime(Strip(val))]

\* re.search(r"\d+", s): the first maximal run of digits
FirstDigitRun(s) ==
    LET at == {i \in 1..Len(s) : IsDigit(s[i])}
        from == SetMin(at)
        to == SetMax({j \in from..Len(s) : \A k \in from..j : IsDigit(s[k])})
    IN  IF at = {} THEN <<>> ELSE SubSeq(s, from, to)

parse_int_safe(val) ==
    IF val = NaN THEN NoValue
    ELSE IF Strip(val) = <<>> THEN NoValue
    ELSE IF FirstDigitRun(Strip(val)) = <<>> THEN NoValue
    ELSE PyInt(FirstDigitRun(Strip(val)))

\* Series.astype(str): a missing cell becomes the text "nan"
AsTypeStr(c) == IF c = NaN THEN PyStrOfNaN ELSE c

\* Series.fillna("")
FillNa(c) == IF c = NaN THEN <<>> ELSE c

\* ---------------------------------------------------------------- Case Builder

BuildRow(df, row) ==
    [ext_case_id |-> Strip(AsTypeStr(Cell(df, row, ColCaseId))),
     patient_id |-> parse_int_safe(Cell(df, row, ColPatientId)),
     patient_name |-> Strip(AsTypeStr(Cell(df, row, ColPatientName))),
     surg_date |-> to_iso_date(Cell(df, row, ColSurgDate)).value,
     age |-> parse_int_safe(Cell(df, row, ColAge)),
     dept |-> Strip(AsTypeStr(Cell(df, row, ColDept))),
     surg_procedure |-> Strip(AsTypeStr(Cell(df, row, ColProcedure))),
     disease |-> Strip(AsTypeStr(Cell(df, row, ColDisease))),
     remarks |-> Strip(FillNa(AsTypeStr(Cell(df, row, ColRemarks))))]

KeptRows_KeepLast(out) ==
    {i \in 1..Len(out) :
        /\ out[i].ext_case_id # <<>>
        /\ \A j \in (i + 1)..Len(out) : out[j].ext_case_id # out[i].ext_case_id}

\* the rows that survive out[out["ext_case_id"] != ""] and drop_duplicates(keep="first")
KeptRows(out) ==
    {i \in 1..Len(out) :
        /\ out[i].ext_case_id # <<>>
        /\ \A j \in 1..(i - 1) : out[j].ext_case_id # out[i].ext_case_id}

\* the columns are built one after the other, each over all rows: the first
\* column with a cell its coercer raises on ends the build
build_surg_cases(df) ==
    LET badInt(col) == {i \in 1..Len(df.rows) :
                          parse_int_safe(Cell(df, df.rows[i], col)).kind = "raise"}
        bad == {i \in 1..Len(df.rows) : to_iso_date(Cell(df, df.rows[i], ColSurgDate)).raised}
        first == to_iso_date(Cell(df, df.rows[SetMin(bad)], ColSurgDate))
        out == [i \in 1..Len(df.rows) |-> BuildRow(df, df.rows[i])]
        keep == SeqOfIndices(KeptRows(out))
        intError == [raised |-> TRUE, exc |-> "ValueError",
                     msg |-> <<[lit |-> "Exceeds the limit (4300 digits) for integer string conversion"]>>]
    IN  IF badInt(ColPatientId) # {} THEN intError
        ELSE IF bad # {} THEN [raised |-> TRUE, exc |-> first.exc, msg |-> first.msg]
        ELSE IF badInt(ColAge) # {} THEN intError
        ELSE [raised |-> FALSE, rows |-> [k \in 1..Len(keep) |-> out[keep[k]]]]

\* ---------------------------------------------------------------- the store

\* surg_cases and case_usage in rowid order, and the AUTOINCREMENT counters
\* of sqlite_sequence.  A connection works on a private copy of the store:
\* commit publishes the copy, rollback discards it.

\* SELECT case_id FROM surg_cases WHERE ext_case_id = ?  (fetchone; 0 = no row)
SelectCaseId(db, ext_case_id) ==
    LET hit == {i \in 1..Len(db.cases) : db.cases[i].ext_case_id = ext_case_id}
    IN  IF hit = {} THEN 0 ELSE db.cases[SetMin(hit)].case_id

CaseExists_Always(db, case_id) == TRUE

\* SELECT 1 FROM surg_cases WHERE case_id = ?
CaseExists(db, case_id) == \E i \in 1..Len(db.cases) : db.cases[i].case_id = case_id

UpdateCase_Recreates(db, case_id, row) ==
    LET keep == SeqOfIndices({i \in 1..Len(db.cases) : db.cases[i].case_id # case_id})
    IN  [db EXCEPT !.seq_cases = db.seq_cases + 1,
                   !.cases = [k \in 1..Len(keep) |-> db.cases[keep[k]]]
                             \o <<[case_id |-> db.seq_cases + 1,
                                   ext_case_id |-> row.ext_case_id,
                                   patient_id |-> row.patient_id,
                                   patient_name |-> row.patient_name,
                                   surg_date |-> row.surg_date,
                                   age |-> row.age,
                                   dept |-> row.dept,
                                   surg_procedure |-> row.surg_procedure,
                                   disease |-> row.disease]>>]

\* UPDATE surg_cases SET ... WHERE case_id = ?
UpdateCase(db, case_id, row) ==
    [db EXCEPT !.cases = [i \in 1..Len(db.cases) |->
        IF db.cases[i].case_id = case_id
        THEN [db.cases[i] EXCEPT !.patient_id = row.patient_id,
                                 !.patient_name = row.patient_name,
                                 !.surg_date = row.surg_date,
                                 !.age = row.age,
                                 !.dept = row.dept,
                                 !.surg_procedure = row.surg_procedure,
                                 !.disease = row.disease]
        ELSE db.cases[i]]]

\* INSERT INTO surg_cases (...) VALUES (...); cur.lastrowid is the new seq_cases
InsertCase(db, row) ==
    [db EXCEPT !.seq_cases = db.seq_cases + 1,
               !.cases = Append(db.cases,
                   [case_id |-> db.seq_cases + 1,
                    ext_case_id |-> row.ext_case_id,
                    patient_id |-> row.patient_id,
                    patient_name |-> row.patient_name,
                    surg_date |-> row.surg_date,
                    age |-> row.age,
                    dept |-> row.dept,
                    surg_procedure |-> row.surg_procedure,
                    disease |-> row.disease])]

\* the unique index idx_surg_cases_ext_case_id rejects a second row of one ext_case_id
ViolatesUniqueIndex(db, row) ==
    \E i \in 1..Len(db.cases) : db.cases[i].ext_case_id = row.ext_case_id

DeleteUsage_Appends(db, case_id) == db

DeleteUsage_ByUsageId(db, case_id) ==
    LET keep == SeqOfIndices({i \in 1..Len(db.usage) : db.usage[i].usage_id # case_id})
    IN  [db EXCEPT !.usage = [k \in 1..Len(keep) |-> db.usage[keep[k]]]]

\* DELETE FROM case_usage WHERE case_id = ?
DeleteUsage(db, case_id) ==
    LET keep == SeqOfIndices({i \in 1..Len(db.usage) : db.usage[i].case_id # case_id})
    IN  [db EXCEPT !.usage = [k \in 1..Len(keep) |-> db.usage[keep[k]]]]

\* str(q) if q is not None else None
QuantityText(q) == IF q = NoValue THEN None ELSE PyStr(q)

\* INSERT INTO case_usage (case_id, free_item_name, quantity, unit, memo) VALUES (...)
InsertUsage(db, case_id, free_item_name, quantity, unit, memo) ==
    [db EXCEPT !.seq_usage = db.seq_usage + 1,
               !.usage = Append(db.usage,
                   [usage_id |-> db.seq_usage + 1,
                    case_id |-> case_id,
                    free_item_name |-> free_item_name,
                    quantity |-> QuantityText(quantity),
                    unit |-> unit,
                    memo |-> memo])]

\* ---------------------------------------------------------------- Reconciliation Engine

\* The state of one run of the transaction: the connection's copy of the
\* store, the number of statements executed, whether one of them raised, the
\* two counters of the response, and how many writes were done.
\* The statements that write (INSERT, UPDATE, DELETE, COMMIT) are numbered
\* from 1 in the order they execute; the one numbered `fault` raises a
\* storage error (fault = 0: none does).

\* the usage INSERTs of one case, from the j-th entry on
RECURSIVE InsertUsageRows(_, _, _, _)
InsertUsageRows(run, usage_rows, j, fault) ==
    IF run.failed \/ j > Len(usage_rows) THEN run
    ELSE IF run.stmts + 1 = fault
    THEN [run EXCEPT !.stmts = run.stmts + 1, !.failed = TRUE, !.exc = "sqlite3.Error"]
    ELSE InsertUsageRows(
            [run EXCEPT !.stmts = run.stmts + 1,
                        !.writes = run.writes + 1,
                        !.db = InsertUsage(run.db, usage_rows[j].case_id,
                                           usage_rows[j].free_item_name,
                                           usage_rows[j].quantity,
                                           usage_rows[j].unit, usage_rows[j].memo)],
            usage_rows, j + 1, fault)

\* a statement raised: the run stops at statement n with exception exc
Fail(run, n, exc) == [run EXCEPT !.stmts = n, !.failed = TRUE, !.exc = exc]

\* the UPDATE or INSERT of the row has been executed (found = 0: INSERT)
AfterUpsert(run, row, found) ==
    [run EXCEPT !.stmts = run.stmts + 1, !.writes = run.writes + 1,
                !.db = IF found # 0 THEN UpdateCase(run.db, found, row)
                       ELSE InsertCase(run.db, row),
                !.imported_cases = run.imported_cases + 1,
                !.updated = run.updated + (IF found # 0 THEN 1 ELSE 0)]

\* the DELETE of the case's usage rows has been executed
AfterDelete(run, internal_case_id) ==
    [run EXCEPT !.stmts = run.stmts + 1, !.writes = run.writes + 1,
                !.db = DeleteUsage(run.db, internal_case_id)]

\* imported_usage += len(usage_rows), once every INSERT has been executed
CountUsage(run, usage_rows) ==
    IF run.failed THEN run
    ELSE [run EXCEPT !.imported_usage = run.imported_usage + Len(usage_rows)]

\* the DELETE, the call of the tokenizer and the usage INSERTs of a row,
\* for the run after the row's UPDATE or INSERT
ReplaceRowUsage(upserted, internal_case_id, usage_rows, fault) ==
    IF upserted.stmts + 1 = fault THEN Fail(upserted, upserted.stmts + 1, "sqlite3.Error")
    ELSE IF IsRaised(usage_rows)
    THEN Fail(AfterDelete(upserted, internal_case_id), upserted.stmts + 1, "ValueError")
    ELSE CountUsage(InsertUsageRows(AfterDelete(upserted, internal_case_id),
                                    usage_rows, 1, fault),
                    usage_rows)

\* the loop body for a row whose SELECT returned found (0 = no row);
\* internal_case_id is found, or cur.lastrowid of the INSERT
UpsertRow(run, row, found, fault) ==
    IF run.stmts + 1 = fault THEN Fail(run, run.stmts + 1, "sqlite3.Error")
    ELSE IF found = 0 /\ ViolatesUniqueIndex(run.db, row)
    THEN Fail(run, run.stmts + 1, "sqlite3.IntegrityError")
    ELSE ReplaceRowUsage(
            AfterUpsert(run, row, found),
            IF found # 0 THEN found ELSE run.db.seq_cases + 1,
            parse_usage_from_remarks(IF found # 0 THEN found ELSE run.db.seq_cases + 1,
                                     row.remarks),
            fault)

\* one turn of "for _, row in cases_df.iterrows()"
ReconcileRow(run, row, fault) ==
    UpsertRow(run, row, SelectCaseId(run.db, row.ext_case_id), fault)

RECURSIVE ReconcileRows(_, _, _, _)
ReconcileRows(run, cases_df, i, fault) ==
    IF run.failed \/ i > Len(cases_df) THEN run
    ELSE ReconcileRows(ReconcileRow(run, cases_df[i], fault), cases_df, i + 1, fault)

\* cur.execute("BEGIN"): the connection starts from the committed store
Begin(committed) ==
    [db |-> committed, stmts |-> 0, failed |-> FALSE, exc |-> "",
     writes |-> 0, updated |-> 0, imported_cases |-> 0, imported_usage |-> 0]

\* conn.commit() at the end of the try block, unless a statement has raised
Commit(body, fault) ==
    IF body.failed THEN body
    ELSE IF body.stmts + 1 = fault THEN Fail(body, body.stmts + 1, "sqlite3.Error")
    ELSE [body EXCEPT !.stmts = body.stmts + 1]

\* cur.execute("BEGIN") ... conn.commit(), before the except clause
Transaction(committed, cases_df, fault) ==
    Commit(ReconcileRows(Begin(committed), cases_df, 1, fault), fault)

Committed_NoRollback(before, run) == run.db

\* what the connection leaves committed: conn.commit() on success,
\* conn.rollback() in the except clause
Committed(before, run) == IF run.failed THEN before ELSE run.db

\* ---------------------------------------------------------------- requests and responses

\* the harness has not applied the function yet
NotRun == <<[notrun |-> TRUE]>>

NoReq == [kind |-> "none"]
NoResp == [ok |-> FALSE, status |-> 0]

\* bytes.decode("cp932") of the uploaded buffer, then pd.read_csv(..., dtype=str):
\* an empty cell is read as NaN.  raw.encoding names the one encoding of the
\* list cp932, utf-8-sig, utf-8 in which the bytes are valid text ("binary":
\* in none of them).
DecodeCp932(raw) ==
    IF raw.encoding = "cp932"
    THEN [raised |-> FALSE, df |-> [columns |-> raw.columns, rows |-> raw.rows]]
    ELSE [raised |-> TRUE, exc |-> "UnicodeDecodeError"]

\* the handler of POST /api/import-csv up to its return: the response and
\* the run of the transaction (NoRun when the handler returned before BEGIN)
NoRun == [db |-> <<>>, stmts |-> 0, failed |-> FALSE, exc |-> "", writes |-> 0,
          updated |-> 0, imported_cases |-> 0, imported_usage |-> 0]

ErrorResp(status, msg) == [ok |-> FALSE, status |-> status, error |-> msg]

\* the handler returned before BEGIN with response r
Early(committed, r) == [resp |-> r, run |-> NoRun, store |-> committed, cases_df |-> <<>>]

\* the return of the handler after the transaction `run`: the success
\* response, or the except clause the exception of the run reaches
ImportResult(committed, cases_df, run) ==
    [resp |-> IF ~run.failed
              THEN [ok |-> TRUE, status |-> 200,
                    message |-> <<[lit |-> "CSV import finished"]>>,
                    imported_cases |-> run.imported_cases,
                    imported_usage_rows |-> run.imported_usage]
              ELSE IF run.exc = "ValueError"
              THEN ErrorResp(400, <<[lit |-> "ValueError"]>>)
              ELSE ErrorResp(500, <<[lit |-> "error in import processing"],
                                    [exc |-> run.exc]>>),
     run |-> run,
     store |-> Committed(committed, run),
     cases_df |-> cases_df]

\* the handler from "conn = get_conn()" on, for the result of build_surg_cases
ImportBuilt(committed, built, fault) ==
    IF built.raised THEN Early(committed, ErrorResp(400, built.msg))
    ELSE ImportResult(committed, built.rows, Transaction(committed, built.rows, fault))

\* the handler from validate_headers(df) on, for the normalized frame
ImportFrame(committed, df, checked, fault) ==
    IF checked.raised THEN Early(committed, ErrorResp(400, checked.msg))
    ELSE ImportBuilt(committed, build_surg_cases(df), fault)

\* the handler from normalize_headers(df) on, for the decoded upload
ImportDecoded(committed, decoded, fault) ==
    IF decoded.raised
    THEN Early(committed, ErrorResp(400, <<[lit |-> "could not read the character encoding"]>>))
    ELSE ImportFrame(committed, normalize_headers(decoded.df),
                     validate_headers(normalize_headers(decoded.df)), fault)

ImportCsv(committed, request, fault) ==
    IF ~request.has_file
    THEN Early(committed, ErrorResp(400, <<[lit |-> "no file selected"]>>))
    ELSE IF ~request.csv_name
    THEN Early(committed, ErrorResp(400, <<[lit |-> "select a CSV file"]>>))
    ELSE ImportDecoded(committed, DecodeCp932(request.raw), fault)

\* str(u.get("free_item_name") or u.get("item_name") or "").strip()
UsageName(u) ==
    Strip(IF u.free_item_name # None /\ u.free_item_name # <<>> THEN u.free_item_name
          ELSE IF u.item_name # None /\ u.item_name # <<>> THEN u.item_name
          ELSE <<>>)

\* the loop "for u in usage" of api_case_usage_replace, from the j-th item on
RECURSIVE ReplaceUsageRows(_, _, _, _, _)
ReplaceUsageRows(run, case_id, usage, j, fault) ==
    IF run.failed \/ j > Len(usage) THEN run
    ELSE IF UsageName(usage[j]) = <<>>
    THEN ReplaceUsageRows(run, case_id, usage, j + 1, fault)
    ELSE IF run.stmts + 1 = fault
    THEN [run EXCEPT !.stmts = run.stmts + 1, !.failed = TRUE, !.exc = "sqlite3.Error"]
    ELSE ReplaceUsageRows(
            [run EXCEPT !.stmts = run.stmts + 1,
                        !.writes = run.writes + 1,
                        !.imported_usage = run.imported_usage + 1,
                        !.db = InsertUsage(run.db, case_id, UsageName(usage[j]),
                                           usage[j].quantity, usage[j].unit, usage[j].memo)],
            case_id, usage, j + 1, fault)

\* the DELETE, the loop and the commit of api_case_usage_replace
ReplaceTransaction(committed, request, fault) ==
    IF fault = 1 THEN Fail(Begin(committed), 1, "sqlite3.Error")
    ELSE Commit(ReplaceUsageRows(AfterDelete(Begin(committed), request.case_id),
                                 request.case_id, request.usage, 1, fault),
                fault)

\* the return of the handler after the transaction `run`
ReplaceResult(committed, run) ==
    [resp |-> IF run.failed
              THEN ErrorResp(500, <<[lit |-> "error while saving"], [exc |-> run.exc]>>)
              ELSE [ok |-> TRUE, status |-> 200,
                    message |-> <<[lit |-> "saved"]>>,
                    inserted |-> run.imported_usage],
     run |-> run,
     store |-> Committed(committed, run)]

\* the handler of PUT /api/cases/<case_id>/usage
ReplaceUsage(committed, request, fault) ==
    IF ~request.is_list
    THEN [resp |-> ErrorResp(400, <<[lit |-> "send usage as an array"]>>),
          run |-> NoRun, store |-> committed]
    ELSE IF ~CaseExists(committed, request.case_id)
    THEN [resp |-> ErrorResp(404, <<[lit |-> "the case does not exist"]>>),
          run |-> Begin(committed), store |-> committed]
    ELSE ReplaceResult(committed, ReplaceTransaction(committed, request, fault))

\* ---------------------------------------------------------------- inputs

T_Structured == <<STAR, "a", "[", "2", "]", "m">>
T_Two == <<STAR, "b", ",", " ", STAR, "a", "[", "b", "]", "[", "1", ".", "5", "]">>

\* the cells of a data row other than the case id, in the order of REQUIRED_COLUMNS
Payloads ==
    { <<<<"1", "2">>, <<"A">>, <<"y", "2", "0", "s">>, <<"2024/1/5">>,
        <<"D">>, <<"P">>, <<"S">>, T_Structured>>,
      <<NaN, <<" ", "B", " ">>, NaN, NaN,
        <<"D">>, <<"P">>, NaN, T_Two>>,
      <<<<"1", "2">>, <<"A">>, <<"y", "2", "0", "s">>, <<" ", "R?">>,
        <<"D">>, <<"P">>, <<"S">>, T_Structured>> }

ExtCells == {NaN, <<" ">>, <<"7">>, <<" ", "7", " ">>, <<"8">>}

DataRows == {<<e>> \o p : e \in ExtCells, p \in Payloads}

SampleRows == {<<e>> \o p : e \in {<<"7">>, <<"8">>}, p \in Payloads}

RowSeqs == UNION {[1..k -> DataRows] : k \in 0..MaxRows}

HeaderPadded ==
    [i \in 1..Len(REQUIRED_COLUMNS) |->
        IF i = 1 THEN <<IDSP>> \o REQUIRED_COLUMNS[i] \o <<" ">> ELSE REQUIRED_COLUMNS[i]]

HeaderNoDate ==
    [i \in 1..Len(REQUIRED_COLUMNS) |->
        IF REQUIRED_COLUMNS[i] = ColSurgDate THEN <<"Shujutsubi">> ELSE REQUIRED_COLUMNS[i]]

\* the patient-name header written with full-width parentheses
HeaderWideParens ==
    [i \in 1..Len(REQUIRED_COLUMNS) |->
        IF REQUIRED_COLUMNS[i] = ColPatientName
        THEN <<"KanjaShimei", "FLPAREN", "Kanji", "FRPAREN">>
        ELSE REQUIRED_COLUMNS[i]]

Uploads ==
    {[encoding |-> "cp932", columns |-> REQUIRED_COLUMNS, rows |-> rs] : rs \in RowSeqs}
    \cup {[encoding |-> "cp932", columns |-> h, rows |-> <<r>>] :
            h \in {HeaderPadded, HeaderNoDate, HeaderWideParens}, r \in SampleRows}
    \cup {[encoding |-> enc, columns |-> REQUIRED_COLUMNS, rows |-> <<r>>] :
            enc \in {"utf-8", "utf-8-sig", "binary"}, r \in SampleRows}

ImportRequests ==
    {[kind |-> "import", has_file |-> TRUE, csv_name |-> TRUE, raw |-> u] : u \in Uploads}
    \cup {[kind |-> "import", has_file |-> hf, csv_name |-> cn,
           raw |-> [encoding |-> "cp932", columns |-> REQUIRED_COLUMNS, rows |-> <<>>]] :
            hf \in BOOLEAN, cn \in {FALSE}}

U_Gauze == [free_item_name |-> <<"g">>, item_name |-> None,
            quantity |-> [kind |-> "int", n |-> 2], unit |-> <<"m">>, memo |-> None]
U_Blank == [free_item_name |-> <<" ">>, item_name |-> None,
            quantity |-> NoValue, unit |-> None, memo |-> <<"x">>]
U_Clip == [free_item_name |-> None, item_name |-> <<" ", "c">>,
           quantity |-> NoValue, unit |-> None, memo |-> None]

ReplaceRequests ==
    {[kind |-> "replace", case_id |-> id, is_list |-> TRUE, usage |-> us] :
        id \in 1..3, us \in {<<>>, <<U_Blank, U_Clip, U_Gauze>>}}
    \cup {[kind |-> "replace", case_id |-> 1, is_list |-> FALSE, usage |-> <<>>]}

\* ---------------------------------------------------------------- state machine

EmptyDB == [cases |-> <<>>, usage |-> <<>>, seq_cases |-> 0, seq_usage |-> 0]

\* a database that predates ext_case_id: ensure_schema has added the column,
\* so the existing case has NULL in it
LegacyDB ==
    [cases |-> <<[case_id |-> 1, ext_case_id |-> None,
                  patient_id |-> [kind |-> "int", n |-> 5], patient_name |-> <<"L">>,
                  surg_date |-> <<"2023-12-01">>, age |-> [kind |-> "int", n |-> 40],
                  dept |-> <<"D">>, surg_procedure |-> <<"P">>, disease |-> <<"S">>]>>,
     usage |-> <<[usage_id |-> 1, case_id |-> 1, free_item_name |-> <<"g">>,
                  quantity |-> <<"1">>, unit |-> None, memo |-> None]>>,
     seq_cases |-> 1, seq_usage |-> 1]

\* history of the last handler execution: again = it served a file sent a
\* second time right after its import succeeded; manual = the cases whose
\* usage rows were last written by a manual replacement; overwrote = the
\* import replaced manually written usage rows; partial = the transaction
\* had written before it failed; updated = it updated a case in place
NoHist == [again |-> FALSE, manual |-> {}, overwrote |-> FALSE,
           partial |-> FALSE, updated |-> FALSE]

\* the same database after the application has been used: one file with a
\* case "7" was imported and the usage of that case was then edited by hand
EarlierImport ==
    [kind |-> "import", has_file |-> TRUE, csv_name |-> TRUE,
     raw |-> [encoding |-> "cp932", columns |-> REQUIRED_COLUMNS,
              rows |-> <<<<<<"7">>, <<"1", "2">>, <<"A">>, <<"y", "2", "0", "s">>,
                          <<"2024-02-03">>, <<"D">>, <<"P">>, <<"S">>, T_Structured>>>>]]
EarlierEdit ==
    [kind |-> "replace", case_id |-> LegacyDB.seq_cases + 1, is_list |-> TRUE,
     usage |-> <<U_Clip, U_Gauze>>]
UsedDB == ReplaceUsage(ImportCsv(LegacyDB, EarlierImport, 0).store, EarlierEdit, 0).store

\* no simultaneous imports are being followed
NoFile == [journal_mode |-> "", commits |-> 0, start |-> <<>>]

Init ==
    /\ \/ store = LegacyDB /\ hist = NoHist
       \/ store = UsedDB /\ hist = [NoHist EXCEPT !.manual = {EarlierEdit.case_id}]
    /\ req = NoReq
    /\ resp = NoResp
    /\ nOps = 0
    /\ remarks = None
    /\ tokOut = NotRun
    /\ conn = <<>>
    /\ dbfile = NoFile

\* a request arrives
Receive ==
    /\ req = NoReq
    /\ nOps < MaxOps
    /\ req' \in ImportRequests \cup ReplaceRequests
    /\ resp' = NoResp
    /\ UNCHANGED <<store, nOps, hist, remarks, tokOut, conn, dbfile>>

\* the case ids the rows of a batch were reconciled with
TouchedIds(db, cases_df) ==
    {SelectCaseId(db, cases_df[i].ext_case_id) : i \in 1..Len(cases_df)}

\* the handler has returned `out`, having touched the cases `touched`
ImportServes(out, touched) ==
    /\ store' = out.store
    /\ resp' = out.resp
    /\ hist' = [hist EXCEPT !.manual = hist.manual \ touched,
                            !.overwrote = (hist.manual \cap touched) # {},
                            !.partial = out.run.failed /\ out.run.writes > 0,
                            !.updated = out.run.updated > 0]

ImportReturns(out) ==
    ImportServes(out, IF out.resp.ok THEN TouchedIds(out.store, out.cases_df) ELSE {})

\* POST /api/import-csv
import_csv ==
    /\ req.kind = "import"
    /\ resp = NoResp
    /\ \E fault \in 0..ImportCsv(store, req, 0).run.stmts :
          ImportReturns(ImportCsv(store, req, fault))
    /\ nOps' = nOps + 1
    /\ UNCHANGED <<req, remarks, tokOut, conn, dbfile>>

\* the handler has returned `out`
ReplaceReturns(out) ==
    /\ store' = out.store
    /\ resp' = out.resp
    /\ hist' = [hist EXCEPT !.manual = IF out.resp.ok
                                       THEN hist.manual \cup {req.case_id}
                                       ELSE hist.manual,
                            !.partial = out.run.failed /\ out.run.writes > 0]

\* PUT /api/cases/<case_id>/usage
api_case_usage_replace ==
    /\ req.kind = "replace"
    /\ resp = NoResp
    /\ \E fault \in 0..ReplaceUsage(store, req, 0).run.stmts :
          ReplaceReturns(ReplaceUsage(store, req, fault))
    /\ nOps' = nOps + 1
    /\ UNCHANGED <<req, remarks, tokOut, conn, dbfile>>

\* the response is delivered
Return ==
    /\ resp # NoResp
    /\ req' = NoReq
    /\ resp' = NoResp
    /\ hist' = [NoHist EXCEPT !.manual = hist.manual]
    /\ UNCHANGED <<store, nOps, remarks, tokOut, conn, dbfile>>

\* the client sends the file it has just imported once more
Resend ==
    /\ req.kind = "import"
    /\ resp.ok
    /\ nOps < MaxOps
    /\ resp' = NoResp
    /\ hist' = [NoHist EXCEPT !.manual = hist.manual, !.again = TRUE]
    /\ UNCHANGED <<store, req, nOps, remarks, tokOut, conn, dbfile>>

Next == Receive \/ import_csv \/ api_case_usage_replace \/ Return \/ Resend

Spec == Init /\ [][Next]_vars

\* ---------------------------------------------------------------- harness of the tokenizer

Alphabet == {STAR, "a", " ", "\n", "[", "]", "2", ".", ","}

ShortTexts == UNION {[1..k -> Alphabet] : k \in 0..MaxLen}

\* tokens written after the convention of the docstring:
\* marker, item text, bracket groups, a last bracket group, unit
ItemTexts == {<<>>, <<"a">>, <<" ", "a", " ">>, <<"a", "\n", "a">>, <<"a", " ", "a">>}
MiddleGroups == {<<>>, <<"[", "a", "2", "]">>, <<"[", "2", "]">>,
                 <<"[", "a", "]", "[", "a", "]">>, <<"[", "\n", "]">>}
LastGroups == {<<"2">>, <<"2", "0">>, <<"0", "2">>, <<"2", ".", "5">>,
               <<"2", ".", "5", "0">>, <<"2", ".", "0">>, <<"a">>, <<>>, <<"2", ".">>,
               <<LONGRUN>>}
UnitTexts == {<<>>, <<"a">>, <<" ", "a">>, <<"a", "\n", "a">>, <<"a", "[">>, <<"a", "]">>}

ConventionTokens ==
    {<<STAR>> \o it \o mid \o <<"[">> \o last \o <<"]">> \o un :
        it \in ItemTexts, mid \in MiddleGroups, last \in LastGroups, un \in UnitTexts}

\* remarks of several segments joined by the three delimiters
Delimiters == {",", ICOMMA, FCOMMA}
SegmentTexts == {<<STAR, "a">>, <<" ", STAR, "a", "[", "2", "]", "m", " ">>, <<"a">>, <<" ">>,
                 <<STAR>>, <<STAR, "b", "[", "a", "]", "[", "1", ".", "5", "]">>}

RECURSIVE Joined(_)
Joined(n) ==
    IF n = 1 THEN SegmentTexts
    ELSE {s \o <<d>> \o t : s \in Joined(n - 1), d \in Delimiters, t \in SegmentTexts}

JoinedRemarks == UNION {Joined(n) : n \in 1..MaxTokens}

TokInputs == {None, NaN} \cup ShortTexts \cup ConventionTokens \cup JoinedRemarks

InitTok ==
    /\ remarks \in TokInputs
    /\ tokOut = NotRun
    /\ store = EmptyDB
    /\ req = NoReq /\ resp = NoResp /\ nOps = 0 /\ hist = NoHist
    /\ conn = <<>> /\ dbfile = NoFile

Tokenize ==
    /\ tokOut = NotRun
    /\ tokOut' = parse_usage_from_remarks(1, remarks)
    /\ UNCHANGED <<store, req, resp, nOps, hist, remarks, conn, dbfile>>

NextTok == Tokenize

SpecTok == InitTok /\ [][NextTok]_vars

\* ---------------------------------------------------------------- harness of parse_int_safe

IntAlphabet == {"0", "1", "2", "a", " ", "-", ".", IDSP}

IntInputs ==
    {NaN} \cup UNION {[1..k -> IntAlphabet] : k \in 0..MaxLen}
    \cup {<<LONGRUN>>, <<"a", " ", LONGRUN, "a", "1">>, <<"1", "a", LONGRUN>>, <<"2", LONGRUN>>}

InitInt ==
    /\ remarks \in IntInputs
    /\ tokOut = NotRun
    /\ store = EmptyDB
    /\ req = NoReq /\ resp = NoResp /\ nOps = 0 /\ hist = NoHist
    /\ conn = <<>> /\ dbfile = NoFile

\* the call parse_int_safe(val); tokOut holds the one result
ParseInt ==
    /\ tokOut = NotRun
    /\ tokOut' = <<parse_int_safe(remarks)>>
    /\ UNCHANGED <<store, req, resp, nOps, hist, remarks, conn, dbfile>>

NextInt == ParseInt

SpecInt == InitInt /\ [][NextInt]_vars

\* ---------------------------------------------------------------- two simultaneous imports

\* Two handlers of POST /api/import-csv run at once, each on its own
\* connection (get_conn: sqlite3.connect(DB_PATH), default busy timeout, no
\* isolation_level argument).  Each cur.execute and conn.commit of the
\* handler is one step; the steps of the two handlers interleave freely.
\* The locks are those SQLite takes for a transaction opened with a plain
\* BEGIN (deferred), in either journal mode the database file may be in:
\*   - BEGIN takes no lock; the first SELECT takes a read lock and fixes
\*     the contents the connection reads from then on;
\*   - the first write takes the write lock; a connection that already
\*     reads is refused at once (SQLITE_BUSY, "database is locked") when
\*     another connection holds the write lock, and in WAL mode also when
\*     another connection has committed since its first read;
\*   - with a rollback journal ("delete") COMMIT waits until no other
\*     connection reads, and a wait that outlasts the busy timeout raises
\*     "database is locked"; in WAL mode COMMIT never waits for readers.
\* A commit waits only for a connection that reads already, so with two
\* connections a first SELECT never meets a waiting commit.

Conns == {1, 2}
Other(c) == 3 - c

JournalModes == {"delete", "wal"}

\* the rows of the uploaded files that pass the coercions
ValidRows == {r \in SampleRows : ~to_iso_date(r[5]).raised}

\* the files of the two imports: every one has a row of case "7"
SharedFiles ==
    {rows \in UNION {[1..k -> ValidRows] : k \in 1..MaxRows} :
        \E i \in 1..Len(rows) : rows[i][1] = <<"7">>}

\* conn = get_conn(); cur = conn.cursor() for the frame of an uploaded file
Connect(rows) ==
    [pc |-> "begin",
     cases_df |-> build_surg_cases([columns |-> REQUIRED_COLUMNS, rows |-> rows]).rows,
     i |-> 1, found |-> 0, internal_case_id |-> 0, usage_rows |-> <<>>, j |-> 1,
     run |-> Begin(<<>>), lock |-> "none", snapshot |-> 0, resp |-> NoResp]

InitConc ==
    /\ store \in {LegacyDB, UsedDB}
    /\ \E m \in JournalModes :
          dbfile = [journal_mode |-> m, commits |-> 0, start |-> store]
    /\ \E f1, f2 \in SharedFiles : conn = <<Connect(f1), Connect(f2)>>
    /\ req = NoReq /\ resp = NoResp /\ nOps = 0 /\ hist = NoHist
    /\ remarks = None /\ tokOut = NotRun

\* the statement of connection k raised exc: control is in the except clause
RaisedIn(k, exc) == [k EXCEPT !.pc = "except", !.run = Fail(k.run, k.run.stmts + 1, exc)]

CanWrite_Always(file, k, other) == TRUE

\* a reading connection may take the write lock
CanWrite(file, k, other) ==
    \/ k.lock = "reserved"
    \/ /\ other.lock \notin {"reserved", "pending"}
       /\ k.snapshot = file.commits

\* the commit of a writing connection need not wait
CanCommit(file, other) == file.journal_mode = "wal" \/ other.lock = "none"

\* the loop "for _, row in cases_df.iterrows()" moves on after row k.i
NextRow(k) ==
    [k EXCEPT !.i = k.i + 1,
              !.pc = IF k.i + 1 > Len(k.cases_df) THEN "commit" ELSE "select"]

\* cur.execute("BEGIN")
ExecBegin(c) ==
    /\ conn[c].pc = "begin"
    /\ conn' = [conn EXCEPT ![c] =
          [conn[c] EXCEPT !.pc = IF conn[c].cases_df = <<>> THEN "commit" ELSE "select"]]
    /\ UNCHANGED <<store, dbfile, req, resp, nOps, hist, remarks, tokOut>>

\* connection k has read `view` with SELECT case_id ... WHERE ext_case_id = ?
Selected(file, k, view) ==
    [k EXCEPT !.pc = "upsert",
              !.run = [k.run EXCEPT !.db = view],
              !.lock = IF k.lock = "none" THEN "shared" ELSE k.lock,
              !.snapshot = IF k.lock = "none" THEN file.commits ELSE k.snapshot,
              !.found = SelectCaseId(view, k.cases_df[k.i].ext_case_id)]

\* cur.execute("SELECT case_id FROM surg_cases WHERE ext_case_id = ?"); fetchone()
ExecSelect(c) ==
    /\ conn[c].pc = "select"
    /\ conn' = [conn EXCEPT ![c] =
          Selected(dbfile, conn[c],
                   IF conn[c].lock = "none" THEN store ELSE conn[c].run.db)]
    /\ UNCHANGED <<store, dbfile, req, resp, nOps, hist, remarks, tokOut>>

\* connection k has executed the UPDATE (found) or the INSERT of its row
Upserted(k, internal_case_id) ==
    [k EXCEPT !.pc = "delete",
              !.lock = "reserved",
              !.internal_case_id = internal_case_id,
              !.run = AfterUpsert(k.run, k.cases_df[k.i], k.found)]

\* cur.execute("UPDATE surg_cases ...") / cur.execute("INSERT INTO surg_cases ...")
ExecUpsert(c) ==
    /\ conn[c].pc = "upsert"
    /\ conn' = [conn EXCEPT ![c] =
          IF ~CanWrite(dbfile, conn[c], conn[Other(c)])
          THEN RaisedIn(conn[c], "sqlite3.OperationalError")
          ELSE IF conn[c].found = 0 /\ ViolatesUniqueIndex(conn[c].run.db, conn[c].cases_df[conn[c].i])
          THEN RaisedIn(conn[c], "sqlite3.IntegrityError")
          ELSE Upserted(conn[c], IF conn[c].found # 0 THEN conn[c].found
                                 ELSE conn[c].run.db.seq_cases + 1)]
    /\ UNCHANGED <<store, dbfile, req, resp, nOps, hist, remarks, tokOut>>

\* connection k has executed the DELETE and called the tokenizer
Deleted(k, usage_rows) ==
    IF IsRaised(usage_rows)
    THEN RaisedIn([k EXCEPT !.run = AfterDelete(k.run, k.internal_case_id)], "ValueError")
    ELSE IF usage_rows = <<>>
    THEN NextRow([k EXCEPT !.run = AfterDelete(k.run, k.internal_case_id)])
    ELSE [k EXCEPT !.pc = "insert_usage", !.j = 1, !.usage_rows = usage_rows,
                   !.run = AfterDelete(k.run, k.internal_case_id)]

\* cur.execute("DELETE FROM case_usage WHERE case_id = ?");
\* usage_rows = parse_usage_from_remarks(internal_case_id, row.get("remarks", ""))
ExecDelete(c) ==
    /\ conn[c].pc = "delete"
    /\ conn' = [conn EXCEPT ![c] =
          Deleted(conn[c], parse_usage_from_remarks(conn[c].internal_case_id,
                                                    conn[c].cases_df[conn[c].i].remarks))]
    /\ UNCHANGED <<store, dbfile, req, resp, nOps, hist, remarks, tokOut>>

\* connection k has executed the INSERT of its usage row u
UsageInserted(k, u) ==
    IF k.j < Len(k.usage_rows)
    THEN [k EXCEPT !.j = k.j + 1,
                   !.run = [k.run EXCEPT !.stmts = k.run.stmts + 1,
                                         !.writes = k.run.writes + 1,
                                         !.db = InsertUsage(k.run.db, u.case_id, u.free_item_name,
                                                            u.quantity, u.unit, u.memo)]]
    ELSE NextRow([k EXCEPT !.j = k.j + 1,
                           !.run = CountUsage(
                               [k.run EXCEPT !.stmts = k.run.stmts + 1,
                                             !.writes = k.run.writes + 1,
                                             !.db = InsertUsage(k.run.db, u.case_id,
                                                                u.free_item_name,
                                                                u.quantity, u.unit, u.memo)],
                               k.usage_rows)])

\* cur.execute("INSERT INTO case_usage ...") for one entry of usage_rows
ExecInsertUsage(c) ==
    /\ conn[c].pc = "insert_usage"
    /\ conn' = [conn EXCEPT ![c] = UsageInserted(conn[c], conn[c].usage_rows[conn[c].j])]
    /\ UNCHANGED <<store, dbfile, req, resp, nOps, hist, remarks, tokOut>>

\* connection k has left the handler with the result `out` of ImportResult
Closed(k, out) == [k EXCEPT !.pc = "closed", !.lock = "none", !.run = out.run, !.resp = out.resp]

\* conn.commit() of a connection that wrote; conn.close(); return jsonify(...)
CommitWrites(c) ==
    /\ conn[c].pc = "commit"
    /\ conn[c].lock \in {"reserved", "pending"}
    /\ CanCommit(dbfile, conn[Other(c)])
    /\ store' = conn[c].run.db
    /\ dbfile' = [dbfile EXCEPT !.commits = dbfile.commits + 1]
    /\ conn' = [conn EXCEPT ![c] =
          Closed(conn[c], ImportResult(store, conn[c].cases_df, Commit(conn[c].run, 0)))]
    /\ UNCHANGED <<req, resp, nOps, hist, remarks, tokOut>>

\* conn.commit() starts to wait for the connections that still read
CommitWaits(c) ==
    /\ conn[c].pc = "commit"
    /\ conn[c].lock = "reserved"
    /\ ~CanCommit(dbfile, conn[Other(c)])
    /\ conn' = [conn EXCEPT ![c] = [conn[c] EXCEPT !.lock = "pending"]]
    /\ UNCHANGED <<store, dbfile, req, resp, nOps, hist, remarks, tokOut>>

\* the busy timeout of the waiting COMMIT runs out: "database is locked"
BusyTimeout(c) ==
    /\ conn[c].pc = "commit"
    /\ conn[c].lock = "pending"
    /\ ~CanCommit(dbfile, conn[Other(c)])
    /\ conn' = [conn EXCEPT ![c] = RaisedIn(conn[c], "sqlite3.OperationalError")]
    /\ UNCHANGED <<store, dbfile, req, resp, nOps, hist, remarks, tokOut>>

\* except Exception: conn.rollback(); raise -- finally: conn.close() -- and
\* the except clause of the handler that answers
ExecRollback(c) ==
    /\ conn[c].pc = "except"
    /\ conn' = [conn EXCEPT ![c] =
          Closed(conn[c], ImportResult(store, conn[c].cases_df, conn[c].run))]
    /\ UNCHANGED <<store, dbfile, req, resp, nOps, hist, remarks, tokOut>>

NextConc ==
    \E c \in Conns :
        \/ ExecBegin(c)
        \/ ExecSelect(c)
        \/ ExecUpsert(c)
        \/ ExecDelete(c)
        \/ ExecInsertUsage(c)
        \/ CommitWrites(c)
        \/ CommitWaits(c)
        \/ BusyTimeout(c)
        \/ ExecRollback(c)

SpecConc == InitConc /\ [][NextConc]_vars

\* ================================================================ claims

\* -------------------------------------------------- reading a request and the store

\* the data rows of the uploaded file, and their cells by column
BatchRows == req.raw.rows
ExtCell(r) == r[1]
DateCell(r) == r[5]
RemarksCell(r) == r[9]

\* the external ids the batch names: the non-empty trimmed case-id cells
BatchIds == {Strip(ExtCell(BatchRows[i])) : i \in {j \in 1..Len(BatchRows) :
                ExtCell(BatchRows[j]) # NaN}} \ {<<>>}

\* the first row of the batch, in source order, whose trimmed case id is e
FirstRowOf(e) ==
    BatchRows[SetMin({i \in 1..Len(BatchRows) :
        ExtCell(BatchRows[i]) # NaN /\ Strip(ExtCell(BatchRows[i])) = e})]

CasesOf(db) == SeqRange(db.cases)

\* the usage list of a case: item name, quantity, unit, memo in usage_id order
UsageListOf(db, case_id) ==
    LET own == SeqOfIndices({i \in 1..Len(db.usage) : db.usage[i].case_id = case_id})
    IN  [k \in 1..Len(own) |->
            [free_item_name |-> db.usage[own[k]].free_item_name,
             quantity |-> db.usage[own[k]].quantity,
             unit |-> db.usage[own[k]].unit,
             memo |-> db.usage[own[k]].memo]]

\* the usage list that holds exactly the entries the tokenizer returns for rem
TokenizedList(rem) ==
    LET es == parse_usage_from_remarks(0, rem)
    IN  [k \in 1..Len(es) |->
            [free_item_name |-> es[k].free_item_name,
             quantity |-> IF es[k].quantity = NoValue THEN None ELSE PyStr(es[k].quantity),
             unit |-> es[k].unit,
             memo |-> es[k].memo]]

\* an import has just been served / is being served in this step
ImportServed == req.kind = "import" /\ resp # NoResp
ImportStep == req.kind = "import" /\ resp = NoResp /\ resp' # NoResp

\* -------------------------------------------------- C1

\* C1: a failed import leaves the committed store exactly as it was, wherever
\* the failure happened (decoding, headers, a date, any write of the batch).
C1_AllOrNothing == [][(ImportStep /\ ~resp'.ok) => store' = store]_vars

\* an import failed at a write after earlier writes of the batch had been done
C1_Witness == ImportServed /\ resp.status = 500 /\ hist.partial

\* -------------------------------------------------- C2

\* C2: after a successful import every case the batch names owns exactly the
\* tokenizer's output on its remarks in this batch, in order, whatever it
\* owned before (from an import or from a manual replacement).
C2_ReplaceNotMerge ==
    (ImportServed /\ resp.ok) =>
        \A e \in BatchIds :
            \E c \in CasesOf(store) :
                /\ c.ext_case_id = e
                /\ UsageListOf(store, c.case_id) = TokenizedList(RemarksCell(FirstRowOf(e)))

\* a successful import replaced usage rows written by a manual replacement
C2_Witness ==
    /\ ImportServed /\ resp.ok /\ hist.overwrote
    /\ \E e \in BatchIds : TokenizedList(RemarksCell(FirstRowOf(e))) # <<>>

\* -------------------------------------------------- C3

\* the cases with all their fields, and the usage list of each
StoreView(db) ==
    [cases |-> db.cases,
     usage |-> [c \in {x.case_id : x \in CasesOf(db)} |-> UsageListOf(db, c)]]

\* C3: importing the file that has just been imported changes neither the
\* cases (ids, fields) nor any case's usage list.
C3_Idempotent ==
    [][(ImportStep /\ hist.again /\ resp'.ok) => StoreView(store') = StoreView(store)]_vars

\* the second import of a file succeeded and updated the cases of the first
C3_Witness ==
    /\ ImportServed /\ resp.ok /\ hist.again /\ hist.updated
    /\ \E e \in BatchIds : TokenizedList(RemarksCell(FirstRowOf(e))) # <<>>

\* -------------------------------------------------- C4

UniqueExternalIds ==
    \A i, j \in 1..Len(store.cases) :
        (store.cases[i].ext_case_id # None
            /\ store.cases[i].ext_case_id = store.cases[j].ext_case_id) => i = j

IdsStable ==
    \A c \in CasesOf(store) :
        c.ext_case_id # None =>
            /\ Cardinality({i \in 1..Len(store'.cases) :
                              store'.cases[i].ext_case_id = c.ext_case_id}) = 1
            /\ \E d \in CasesOf(store') :
                  d.ext_case_id = c.ext_case_id /\ d.case_id = c.case_id

\* C4: an external id names at most one case, and a case keeps its internal
\* id (and stays the only case of its external id) in every later state.
C4_StableIdentity == [][UniqueExternalIds' /\ IdsStable]_vars

\* a re-import updated in place a case an earlier import had created
C4_Witness == ImportServed /\ resp.ok /\ hist.updated

\* -------------------------------------------------- C5

\* the case holds the coerced values of the row
CaseHoldsRow(c, r) ==
    LET b == BuildRow([columns |-> REQUIRED_COLUMNS, rows |-> <<r>>], r)
    IN  /\ c.patient_id = b.patient_id
        /\ c.patient_name = b.patient_name
        /\ c.surg_date = b.surg_date
        /\ c.age = b.age
        /\ c.dept = b.dept
        /\ c.surg_procedure = b.surg_procedure
        /\ c.disease = b.disease

\* C5: of several rows with one trimmed external id only the first in source
\* order is persisted: the case's fields and usage rows come from that row.
C5_FirstRowWins ==
    (ImportServed /\ resp.ok) =>
        \A e \in BatchIds :
            \A c \in CasesOf(store) :
                c.ext_case_id = e =>
                    /\ CaseHoldsRow(c, FirstRowOf(e))
                    /\ UsageListOf(store, c.case_id)
                         = TokenizedList(RemarksCell(FirstRowOf(e)))

\* a batch with two rows of one external id and different values was imported
C5_Witness ==
    /\ ImportServed /\ resp.ok
    /\ \E i, j \in 1..Len(BatchRows) :
          /\ i < j
          /\ ExtCell(BatchRows[i]) # NaN /\ ExtCell(BatchRows[j]) # NaN
          /\ Strip(ExtCell(BatchRows[i])) = Strip(ExtCell(BatchRows[j]))
          /\ Strip(ExtCell(BatchRows[i])) # <<>>
          /\ ExtCell(BatchRows[i]) # ExtCell(BatchRows[j])
          /\ RemarksCell(BatchRows[i]) # RemarksCell(BatchRows[j])
          /\ DateCell(BatchRows[i]) # DateCell(BatchRows[j])

\* -------------------------------------------------- C6

\* C6: a row whose case-id cell is absent, empty or only whitespace writes
\* nothing: every case an import inserts or changes, and every case whose
\* usage list it changes, carries an external id the batch names.
C6_EmptyIdDropped ==
    [][ImportStep =>
        /\ \A c \in CasesOf(store') :
              c \notin CasesOf(store) => c.ext_case_id \in BatchIds
        /\ \A c \in CasesOf(store) :
              c.ext_case_id \notin BatchIds =>
                  UsageListOf(store', c.case_id) = UsageListOf(store, c.case_id)]_vars

\* -------------------------------------------------- C7

\* the import reaches the coercion of the rows
ReachesCoercion ==
    /\ req.kind = "import" /\ req.has_file /\ req.csv_name
    /\ req.raw.encoding = "cp932"
    /\ req.raw.columns \in {REQUIRED_COLUMNS, HeaderPadded}

\* rows whose date cell is not empty after trimming and is no date
BadDateRows ==
    {i \in 1..Len(BatchRows) :
        /\ DateCell(BatchRows[i]) # NaN
        /\ Strip(DateCell(BatchRows[i])) # <<>>
        /\ ToDatetime(Strip(DateCell(BatchRows[i]))) = <<"NaT">>}

EmptyDateRows ==
    {i \in 1..Len(BatchRows) :
        DateCell(BatchRows[i]) = NaN \/ Strip(DateCell(BatchRows[i])) = <<>>}

NamesBadValue(msg) ==
    \E k \in 1..Len(msg), i \in BadDateRows :
        "val" \in DOMAIN msg[k] /\ msg[k].val = Strip(DateCell(BatchRows[i]))

NamesRow(msg) == \E k \in 1..Len(msg) : "row" \in DOMAIN msg[k]

\* C7: an unparseable date fails the import with a validation error that
\* names the value and the row, and leaves the store unchanged; an empty date
\* cell is an absent date and no error.
C7_StrictDate ==
    [][(ImportStep /\ ReachesCoercion) =>
        /\ BadDateRows # {} =>
              /\ resp'.status = 400
              /\ NamesBadValue(resp'.error)
              /\ NamesRow(resp'.error)
              /\ store' = store
        /\ BadDateRows = {} => resp'.status # 400
        /\ (BadDateRows = {} /\ resp'.ok) =>
              \A i \in EmptyDateRows :
                  \A c \in CasesOf(store') :
                      (ExtCell(BatchRows[i]) # NaN
                         /\ c.ext_case_id = Strip(ExtCell(BatchRows[i]))
                         /\ FirstRowOf(c.ext_case_id) = BatchRows[i])
                      => c.surg_date = None]_vars

\* -------------------------------------------------- C8

\* C8: the tokenizer returns a list for every remarks value and raises for
\* none; for an empty or absent value the list is empty.
C8_Total ==
    tokOut # NotRun =>
        /\ ~IsRaised(tokOut)
        /\ \A k \in 1..Len(tokOut) : tokOut[k].free_item_name # <<>>
        /\ remarks \in {None, NaN, <<>>} => tokOut = <<>>

\* -------------------------------------------------- C9, C10

\* remarks that are one marker token: no delimiter, the marker first after trimming
IsText(v) == v # None /\ v # NaN
OneMarkerToken ==
    /\ IsText(remarks)
    /\ \A i \in 1..Len(remarks) : remarks[i] \notin {",", ICOMMA, FCOMMA}
    /\ Strip(remarks) # <<>>
    /\ Strip(remarks)[1] = STAR

Token == Strip(remarks)
TokenBody == SubSeq(Token, 2, Len(Token))

\* a numeric literal: digits, or digits "." digits
NumericLiteral(s) ==
    LET dots == {i \in 1..Len(s) : s[i] = "."}
        d == SetMin(dots)
        digits(x) == x # <<>> /\ \A i \in 1..Len(x) : IsDigit(x[i])
    IN  IF dots = {} THEN digits(s)
        ELSE Cardinality(dots) = 1 /\ digits(SubSeq(s, 1, d - 1))
             /\ digits(SubSeq(s, d + 1, Len(s)))

\* the last bracket group of the token: from the last "[" before the last "]"
LastClose == SetMax({i \in 1..Len(TokenBody) : TokenBody[i] = "]"})
LastOpen == SetMax({i \in 1..(LastClose - 1) : TokenBody[i] = "["})
FirstOpen == SetMin({i \in 1..Len(TokenBody) : TokenBody[i] = "["})
LastGroup == SubSeq(TokenBody, LastOpen + 1, LastClose - 1)

\* the token ends in a bracket group that holds a numeric literal
HasTrailingQuantity ==
    /\ \E i \in 1..Len(TokenBody) : TokenBody[i] = "]"
    /\ \E i \in 1..(LastClose - 1) : TokenBody[i] = "["
    /\ NumericLiteral(LastGroup)

\* the literal is short enough for int() to convert (the long ones are C8's)
ShortLiteral == ~Contains(LastGroup, LONGRUN)

ExpectedQuantity ==
    LET dots == {i \in 1..Len(LastGroup) : LastGroup[i] = "."}
    IN  IF dots = {} THEN [kind |-> "int", n |-> DigitsValue(LastGroup)]
        ELSE [kind |-> "float",
              whole |-> DigitsValue(SubSeq(LastGroup, 1, SetMin(dots) - 1)),
              frac |-> DropTrailingZeros(SubSeq(LastGroup, SetMin(dots) + 1, Len(LastGroup)))]

ExpectedStructured ==
    LET item == Strip(SubSeq(TokenBody, 1, FirstOpen - 1))
        unit == Strip(SubSeq(TokenBody, LastClose + 1, Len(TokenBody)))
    IN  IF item = <<>> THEN <<>>
        ELSE <<[case_id |-> 1, free_item_name |-> item, quantity |-> ExpectedQuantity,
                unit |-> IF unit = <<>> THEN None ELSE unit, memo |-> Token]>>

\* C9: a marker token that ends in a bracketed numeric literal yields exactly
\* one entry: item name = text before the first bracket, quantity = the number
\* of the last bracket group, unit = text after it; none if the name is empty.
\* Stated for the literals int() converts, so that it fails on its own account.
C9_Structured ==
    (tokOut # NotRun /\ OneMarkerToken /\ HasTrailingQuantity /\ ShortLiteral) =>
        tokOut = ExpectedStructured

ExpectedFallback ==
    IF Strip(TokenBody) = <<>> THEN <<>>
    ELSE <<[case_id |-> 1, free_item_name |-> Strip(TokenBody), quantity |-> NoValue,
            unit |-> None, memo |-> Token]>>

\* C10: a marker token without a trailing bracketed numeric literal yields
\* exactly one entry whose item name is all the text after the marker,
\* trimmed, without quantity or unit; none only if that text is empty.
C10_Fallback ==
    (tokOut # NotRun /\ OneMarkerToken /\ ~HasTrailingQuantity) =>
        tokOut = ExpectedFallback

\* -------------------------------------------------- C11

\* the tokens of a remarks text: the trimmed segments between delimiters
Boundaries(rem) ==
    SeqOfIndices({0, Len(rem) + 1} \cup {i \in 1..Len(rem) : rem[i] \in {",", ICOMMA, FCOMMA}})

TokensOf(rem) ==
    [k \in 1..(Len(Boundaries(rem)) - 1) |->
        Strip(SubSeq(rem, Boundaries(rem)[k] + 1, Boundaries(rem)[k + 1] - 1))]

IsMarkerToken(t) == Len(t) >= 1 /\ t[1] = STAR

RECURSIVE ConcatAll(_)
ConcatAll(ss) == IF ss = <<>> THEN <<>> ELSE Head(ss) \o ConcatAll(Tail(ss))

\* what the tokenizer returns for each token taken alone
PerToken(rem) == [k \in 1..Len(TokensOf(rem)) |-> parse_usage_from_remarks(1, TokensOf(rem)[k])]

\* C11: the result is, token by token in source order, what each token yields
\* alone (so nothing is reordered or deduplicated); a token without the
\* marker yields nothing, a marker token at most one entry, and an entry's
\* memo is its token.
C11_TokenOrder ==
    (tokOut # NotRun /\ IsText(remarks) /\ ~IsRaised(tokOut)) =>
        /\ tokOut = ConcatAll(PerToken(remarks))
        /\ \A k \in 1..Len(TokensOf(remarks)) :
              /\ ~IsMarkerToken(TokensOf(remarks)[k]) => PerToken(remarks)[k] = <<>>
              /\ Len(PerToken(remarks)[k]) <= 1
              /\ \A j \in 1..Len(PerToken(remarks)[k]) :
                    PerToken(remarks)[k][j].memo = TokensOf(remarks)[k]

\* two equal marker tokens around a token without marker, split by the
\* ideographic and the full-width comma, gave two equal entries
C11_Witness ==
    /\ tokOut # NotRun /\ IsText(remarks)
    /\ Contains(remarks, ICOMMA) /\ Contains(remarks, FCOMMA)
    /\ Len(TokensOf(remarks)) = 3
    /\ ~IsMarkerToken(TokensOf(remarks)[2]) /\ TokensOf(remarks)[2] # <<>>
    /\ Len(tokOut) = 2 /\ tokOut[1] = tokOut[2]

\* -------------------------------------------------- C12

\* C12: a file that decodes and has a valid header row but no data rows is
\* reported as an error, never as a success with zero cases.
C12_EmptyRejected ==
    (ImportServed /\ ReachesCoercion /\ BatchRows = <<>>) => ~resp.ok

\* -------------------------------------------------- C13

\* the normalization of a header cell: full-width space to space, full-width
\* parentheses to standard ones, runs of whitespace to one space, trimmed
Narrow(c) == IF c = IDSP THEN " " ELSE IF c = "FLPAREN" THEN "("
             ELSE IF c = "FRPAREN" THEN ")" ELSE c

RECURSIVE Collapse(_)
Collapse(s) ==
    IF Len(s) <= 1 THEN s
    ELSE IF IsSpace(s[1]) /\ IsSpace(s[2]) THEN Collapse(Tail(s))
    ELSE <<s[1]>> \o Collapse(Tail(s))

Normalized(cell) == Collapse(Strip([i \in 1..Len(cell) |-> Narrow(cell[i])]))

\* every required column is named by a header cell, up to normalization
HeadersMatchNormalized ==
    \A i \in 1..Len(REQUIRED_COLUMNS) :
        \E j \in 1..Len(req.raw.columns) :
            Normalized(req.raw.columns[j]) = Normalized(REQUIRED_COLUMNS[i])

MissingColumnsError(r) ==
    r.status = 400 /\ \E k \in 1..Len(r.error) : "col" \in DOMAIN r.error[k]

\* C13: a file whose header cells equal the required names up to
\* normalization passes header validation.
C13_NormalizedHeaders ==
    (ImportServed /\ req.has_file /\ req.csv_name /\ req.raw.encoding = "cp932"
        /\ HeadersMatchNormalized) => ~MissingColumnsError(resp)

\* -------------------------------------------------- C15

ReplaceServed == req.kind = "replace" /\ resp # NoResp
ReplaceStep == req.kind = "replace" /\ resp = NoResp /\ resp' # NoResp

\* every usage row of the store is owned by a case of the store
UsageOwned ==
    \A i \in 1..Len(store.usage) :
        \E c \in CasesOf(store) : c.case_id = store.usage[i].case_id

\* C15: no usage row exists without its case, in any state, and a
\* replacement addressed to a case id that does not exist writes nothing.
C15_UsageOwned ==
    [][/\ UsageOwned'
       /\ (ReplaceStep /\ \A c \in CasesOf(store) : c.case_id # req.case_id)
             => store' = store]_vars

\* a replacement with items was addressed to a case id the store lacks
C15_Witness ==
    /\ ReplaceServed /\ resp.status = 404 /\ req.usage # <<>>
    /\ \A c \in CasesOf(store) : c.case_id # req.case_id
    /\ store.usage # <<>>

\* -------------------------------------------------- C16

\* the case row stores, in a column of its own, the remarks cell r as it was read
StoresRemarks(c, r) == "remarks" \in DOMAIN c /\ c.remarks = RemarksCell(r)

\* C16: after a successful import every case the batch names stores the
\* nursing-remarks cell of its source row, unmodified.
C16_RemarksKept ==
    (ImportServed /\ resp.ok) =>
        \A e \in BatchIds :
            \A c \in CasesOf(store) :
                c.ext_case_id = e => StoresRemarks(c, FirstRowOf(e))

\* -------------------------------------------------- C17

\* the first maximal run of digits of a text, scanning left to right
RunStart(s) == SetMin({i \in 1..Len(s) : IsDigit(s[i])})
RunEnd(s) == SetMin({j \in RunStart(s)..Len(s) : j = Len(s) \/ ~IsDigit(s[j + 1])})
HasDigit(s) == \E i \in 1..Len(s) : IsDigit(s[i])

\* C17: parse_int_safe never raises; a null or blank input and a text without
\* digits yield absent; otherwise the result is the value of the first
\* maximal run of digits, which is never negative.
C17_LenientInt ==
    tokOut # NotRun =>
        /\ tokOut[1].kind # "raise"
        /\ (remarks = NaN \/ ~HasDigit(remarks)) => tokOut[1] = NoValue
        /\ (remarks # NaN /\ HasDigit(remarks)) =>
              /\ tokOut[1].kind = "int"
              /\ tokOut[1].n = DigitsValue(SubSeq(remarks, RunStart(remarks), RunEnd(remarks)))
              /\ tokOut[1].n >= 0

\* -------------------------------------------------- C18

\* the encodings the decoder is to try, in order
EncodingList == <<"cp932", "utf-8-sig", "utf-8">>

DecodeError(r) ==
    r.status = 400 /\ r.error = <<[lit |-> "could not read the character encoding"]>>

\* C18: the upload is rejected with a decode error exactly when no encoding
\* of the list decodes it; then nothing is persisted.
C18_EncodingFallback ==
    [][(ImportStep /\ req.has_file /\ req.csv_name) =>
          /\ DecodeError(resp') <=> req.raw.encoding \notin SeqRange(EncodingList)
          /\ DecodeError(resp') => store' = store]_vars

\* -------------------------------------------------- C19

\* the key the Case Builder compares rows by
RowKey(r) == Strip(AsTypeStr(ExtCell(r)))

\* the rows of the batch the Case Builder discards as later occurrences
LaterOccurrences ==
    {i \in 1..Len(BatchRows) :
        /\ RowKey(BatchRows[i]) # <<>>
        /\ \E j \in 1..(i - 1) : RowKey(BatchRows[j]) = RowKey(BatchRows[i])}

\* the request with the later occurrences removed from its batch
WithoutLater ==
    LET keep == SeqOfIndices((1..Len(BatchRows)) \ LaterOccurrences)
    IN  [req EXCEPT !.raw.rows = [k \in 1..Len(keep) |-> BatchRows[keep[k]]]]

SameOutcome(out, r, db) == out.resp = r /\ out.store = db

\* C19: importing a batch ends as importing it without the later occurrences
\* of its duplicated ids ends: same response, same store.
C19_SilentDiscard ==
    [][(ImportStep /\ ReachesCoercion /\ LaterOccurrences # {}) =>
          \E f \in 0..ImportCsv(store, WithoutLater, 0).run.stmts :
              SameOutcome(ImportCsv(store, WithoutLater, f), resp', store')]_vars

\* -------------------------------------------------- C20

\* the usage rows a case owns, as stored
UsageRowsOf(db, case_id) == SelectSeq(db.usage, LAMBDA u : u.case_id = case_id)

\* C20: a successful import leaves every case whose external id the batch
\* does not name as it was (internal id, fields, usage rows), and removes no
\* case.
C20_ImportFrame ==
    [][(ImportStep /\ resp'.ok) =>
          /\ \A c \in CasesOf(store) :
                c.ext_case_id \notin BatchIds =>
                    /\ c \in CasesOf(store')
                    /\ UsageRowsOf(store', c.case_id) = UsageRowsOf(store, c.case_id)
          /\ \A c \in CasesOf(store) :
                \E d \in CasesOf(store') : d.case_id = c.case_id]_vars

\* -------------------------------------------------- C14

\* the imports that have committed
CommittedConns == {c \in Conns : conn[c].pc = "closed" /\ conn[c].resp.ok}

\* the store after the imports of the connections in `order` ran one after
\* the other on db, each alone
RECURSIVE SerialRun(_, _)
SerialRun(db, order) ==
    IF order = <<>> THEN db
    ELSE SerialRun(ImportBuilt(db, [raised |-> FALSE, rows |-> conn[Head(order)].cases_df], 0).store,
                   Tail(order))

Orders(S) == {o \in UNION {[1..n -> S] : n \in {Cardinality(S)}} :
                 \A a, b \in 1..Len(o) : o[a] = o[b] => a = b}

StorageFault(r) ==
    /\ r.status = 500
    /\ r.error = <<[lit |-> "error in import processing"], [exc |-> "sqlite3.OperationalError"]>>

\* C14: whatever the interleaving, the committed store is the result of the
\* committed imports run one after the other in some order (nothing of an
\* import that has not committed is in it), an import that has ended has
\* committed or was answered as a storage fault, and no external id names
\* two cases.
C14_Serialized ==
    conn # <<>> =>
        /\ \E o \in Orders(CommittedConns) : store = SerialRun(dbfile.start, o)
        /\ \A c \in Conns :
              conn[c].pc = "closed" => (conn[c].resp.ok \/ StorageFault(conn[c].resp))
        /\ UniqueExternalIds

\* both imports have ended after their statements interleaved: one has
\* committed, the other was refused the lock and rolled back
C14_Witness ==
    /\ conn # <<>>
    /\ \E c \in Conns :
          /\ conn[c].pc = "closed" /\ conn[c].resp.ok
          /\ conn[Other(c)].pc = "closed" /\ StorageFault(conn[Other(c)].resp)
          /\ conn[Other(c)].run.writes = 0 /\ conn[Other(c)].run.stmts > 0
    /\ store # dbfile.start

====
